---------------------------- MODULE Spec2Model ----------------------------
(***************************************************************************)
(* The four record stores of kira-content and the operations of the tools  *)
(* that own them:                                                          *)
(*   scripts/content.js  ContentEngine      queue + posted archive         *)
(*   scripts/clip.js     ClipDetector       clips                          *)
(*   scripts/clip.js     PredictionsTracker predictions (second half)      *)
(*   scripts/booking.js  BookingSystem      bookings                       *)
(* Every tool loads its whole store into an instance field when it is      *)
(* constructed, changes it in memory and writes the whole file back.  The  *)
(* tools share no state but the wall clock, so a behaviour follows one     *)
(* tool (variable script).  One action is one call of one method.          *)
(***************************************************************************)
EXTENDS Integers, Sequences, FiniteSets, TLC

VARIABLES
    script,           \* the tool this behaviour runs
    now,              \* Date.now(): the wall clock, in ticks
    queue,            \* ContentEngine.queue (memory)
    posted,           \* ContentEngine.posted (memory)
    queueFile,        \* content-queue.json
    postedFile,       \* posted-content.json
    generated,        \* generateQueue calls made so far in this behaviour
    clips,            \* ClipDetector.clips (memory)
    clipsFile,        \* clips.json
    approvedElsewhere, \* ids of the clips a separate `clip.js approve` has reported approved
    predictions,      \* PredictionsTracker.predictions (memory)
    predictionsFile,  \* predictions.json
    bookings,         \* BookingSystem.bookings (memory)
    bookingsFile,     \* bookings.json
    running,          \* the tool's process is alive (FALSE once it died inside a save)
    last              \* the latest call: its name, arguments, return value, files written

contentVars == <<queue, posted, queueFile, postedFile, generated>>
clipVars == <<clips, clipsFile, approvedElsewhere>>
predictionVars == <<predictions, predictionsFile>>
bookingVars == <<bookings, bookingsFile>>
procVars == <<running>>
vars == <<script, now, contentVars, clipVars, predictionVars, bookingVars, procVars, last>>

(***************************************************************************)
(* Bounds of the model.                                                    *)
(***************************************************************************)
MaxTime == 1          \* the clock runs over 0..MaxTime
MaxGenerate == 2      \* generateQueue calls per behaviour
MaxClips == 2         \* clips detected per behaviour
MaxPredictions == 2   \* predictions added per behaviour
MaxNewBookings == 2   \* bookings submitted per behaviour
TicksPerDay == 2      \* clock ticks in a day
MaxContentTime == 1   \* the clock of a behaviour of the content tool runs over 0..MaxContentTime
DaysPerMonth == 1     \* days in a month of the scaled-down calendar
MonthsPerYear == 2    \* months in a year of the scaled-down calendar

Min(a, b) == IF a <= b THEN a ELSE b

\* A field that is absent until a transition writes it: <<>> or <<value>>.
Unset == <<>>
At(t) == <<t>>

\* arg: a further argument of the call; was: whether the call repeats the
\* transition on the record found by id (see On).
Call(op, id, result, wrote, new) ==
    [op |-> op, id |-> id, result |-> result, wrote |-> wrote, new |-> new,
     arg |-> <<>>, was |-> <<>>]

----------------------------------------------------------------------------
(***************************************************************************)
(* Backing files.  A file is missing or holds a text; the text that        *)
(* JSON.stringify(collection, null, 2) produces is a sequence of tokens:   *)
(* [ and ], { and } around each record, and one token per key that the     *)
(* record has.                                                             *)
(***************************************************************************)
Missing == [exists |-> FALSE, text |-> <<>>]
FileOf(text) == [exists |-> TRUE, text |-> text]

Tok(kind) == [kind |-> kind, name |-> "", value |-> <<>>]
KeyTok(name, value) == [kind |-> "key", name |-> name, value |-> value]

\* A JavaScript number, NaN included, and null.
Number(n) == [kind |-> "number", n |-> n]
NaN == [kind |-> "NaN", n |-> 0]
Null == [kind |-> "null", n |-> 0]

\* The keys whose value is a number that may be NaN (the result of parseInt).
NumberFields == {"confidence"}

\* JSON.stringify of a value: NaN is written as null.
JsonValue(name, v) ==
    IF name \in NumberFields THEN (IF v.kind = "NaN" THEN Null ELSE v) ELSE v

\* A schema is the keys of a record in the order the code writes them, and
\* the keys a record has only once a transition has set them.
Schema(keys, optional) == [keys |-> keys, optional |-> optional]

Has(schema, r, name) == ~(name \in schema.optional /\ r[name] = Unset)

RECURSIVE StringifyKeys(_, _, _)
StringifyKeys(schema, r, k) ==
    IF k > Len(schema.keys) THEN <<>>
    ELSE (IF Has(schema, r, schema.keys[k])
          THEN <<KeyTok(schema.keys[k], JsonValue(schema.keys[k], r[schema.keys[k]]))>>
          ELSE <<>>)
         \o StringifyKeys(schema, r, k + 1)

RECURSIVE StringifyRecords(_, _)
StringifyRecords(schema, coll) ==
    IF coll = <<>> THEN <<>>
    ELSE <<Tok("{")>> \o StringifyKeys(schema, Head(coll), 1) \o <<Tok("}")>>
         \o StringifyRecords(schema, Tail(coll))

\* JSON.stringify(collection, null, 2)
Stringify(schema, coll) == <<Tok("[")>> \o StringifyRecords(schema, coll) \o <<Tok("]")>>

\* The positions of the tokens of a kind, in order.
Positions(text, kind) ==
    LET OfKind(i) == text[i].kind = kind
    IN  SelectSeq([i \in 1..Len(text) |-> i], OfKind)

\* The text is [ record* ] and each record is { key* }.
WellFormed(text) ==
    LET opens == Positions(text, "{")
        closes == Positions(text, "}")
        n == Len(opens)
    IN  /\ Len(text) >= 2
        /\ text[1].kind = "[" /\ text[Len(text)].kind = "]"
        /\ Len(closes) = n
        /\ IF n = 0 THEN Len(text) = 2
           ELSE /\ opens[1] = 2 /\ closes[n] = Len(text) - 1
                /\ \A j \in 1..n : opens[j] < closes[j]
                /\ \A j \in 1..(n - 1) : opens[j + 1] = closes[j] + 1
                /\ \A j \in 1..n : \A i \in (opens[j] + 1)..(closes[j] - 1) : text[i].kind = "key"

\* The record between the tokens at from and to: each key's last value.
ParseRecord(schema, text, from, to) ==
    [name \in { schema.keys[k] : k \in DOMAIN schema.keys } |->
        LET at == { i \in (from + 1)..(to - 1) : text[i].name = name }
        IN  IF at = {} THEN Unset
            ELSE text[CHOOSE i \in at : \A h \in at : h <= i].value]

\* JSON.parse(text): ok is FALSE where it throws a SyntaxError.
Parse(schema, text) ==
    IF ~WellFormed(text) THEN [ok |-> FALSE, value |-> <<>>]
    ELSE LET opens == Positions(text, "{")
             closes == Positions(text, "}")
         IN  [ok |-> TRUE,
              value |-> [j \in 1..Len(opens) |-> ParseRecord(schema, text, opens[j], closes[j])]]

\* JSON.parse(fs.readFileSync(path, 'utf8')): ok is FALSE where it throws
\* (ENOENT, SyntaxError).
ReadJson(schema, file) ==
    IF ~file.exists THEN [ok |-> FALSE, value |-> <<>>] ELSE Parse(schema, file.text)

\* load() without its try/catch.
LoadNoCatch(schema, file) ==
    LET r == ReadJson(schema, file)
    IN  [threw |-> ~r.ok, value |-> r.value]

\* load(): the parsed file, [] when the file is missing (existsSync) or the
\* read throws (catch).
Load(schema, file) ==
    LET r == ReadJson(schema, file)
    IN  [threw |-> FALSE, value |-> IF r.ok THEN r.value ELSE <<>>]

\* The file an earlier run left behind: none if it never saved anything.
SeedFile(schema, coll) == IF coll = <<>> THEN Missing ELSE FileOf(Stringify(schema, coll))

\* Where the text can end if the process dies inside fs.writeFileSync, which
\* truncates the file and then writes the text: nothing written yet, or the
\* first token only.
Cuts(text) == {0, 1}

\* fs.writeFileSync(path, text): the file afterwards, and whether the call
\* returned.  (A process that dies before the file is opened leaves the state
\* that a constructor call reaches from the state before the method.)
WriteOutcomes(file, text) ==
    { [file |-> FileOf(text), done |-> TRUE] }
    \cup { [file |-> FileOf(SubSeq(text, 1, n)), done |-> FALSE] : n \in Cuts(text) }

Crashed == "crash"

Died(call) == Call(call.op, call.id, Crashed, call.wrote, <<>>)

\* The save() that ends a method: memNext is the collection in memory and
\* fileNext the file after it, call what the method returns if it gets that
\* far.  A process that has died holds no collection.
Save(memNext, fileNext, file, schema, coll, call) ==
    \E w \in WriteOutcomes(file, Stringify(schema, coll)) :
        /\ fileNext = w.file
        /\ memNext = IF w.done THEN coll ELSE <<>>
        /\ running' = w.done
        /\ last' = IF w.done THEN call ELSE Died(call)

\* was: <<stamp>> if the record already had the status the transition gives,
\* stamp being the timestamp of the transition before the call.
On(call, repeated, stamp) == [call EXCEPT !.was = IF repeated THEN <<stamp>> ELSE <<>>]
With(call, arg) == [call EXCEPT !.arg = arg]

----------------------------------------------------------------------------
(***************************************************************************)
(* Texts.  A text is a sequence of characters; the literal part of a       *)
(* template is one opaque lower-case chunk.                                *)
(***************************************************************************)
IsSpace(c) == c \in {" ", "\n"}

ToLower(c) == IF c = "A" THEN "a" ELSE IF c = "B" THEN "b" ELSE c

RECURSIVE DropSpaces(_)
DropSpaces(s) ==
    IF s # <<>> /\ IsSpace(Head(s)) THEN DropSpaces(Tail(s)) ELSE s

\* .replace(/\s+/g, ' ')
RECURSIVE CollapseSpaces(_)
CollapseSpaces(s) ==
    IF s = <<>> THEN <<>>
    ELSE IF IsSpace(Head(s)) THEN <<" ">> \o CollapseSpaces(DropSpaces(Tail(s)))
    ELSE <<Head(s)>> \o CollapseSpaces(Tail(s))

RECURSIVE DropTrailingSpaces(_)
DropTrailingSpaces(s) ==
    IF s # <<>> /\ IsSpace(s[Len(s)])
    THEN DropTrailingSpaces(SubSeq(s, 1, Len(s) - 1))
    ELSE s

\* .trim()
Trim(s) == DropTrailingSpaces(DropSpaces(s))

\* text.toLowerCase().replace(/\s+/g, ' ').trim()
Normalize(text) ==
    Trim(CollapseSpaces([i \in 1..Len(text) |-> ToLower(text[i])]))

----------------------------------------------------------------------------
(***************************************************************************)
(* Content engine.                                                         *)
(***************************************************************************)
maxQueueSize == 20

\* Commit messages the commit-history provider may return (recentCommit.message).
Messages == { <<"a", " ", "b">>, <<" ", "A", " ", " ", "b">> }
NoCommit == <<>>

\* What analyzeMemory's first entry says: more wins, more problems, or neither
\* (also: no memory file).
Moods == {"wins", "problems", "none"}

Families == {"build_update", "lesson_learned", "behind_scenes", "hot_take", "prediction"}

Priority(family) ==
    CASE family = "build_update"   -> 8
      [] family = "lesson_learned" -> 7
      [] family = "prediction"     -> 7
      [] family = "hot_take"       -> 6
      [] family = "behind_scenes"  -> 5

\* The literal text of pattern p of a family once its placeholders are filled
\* from idea.data or replaced by '...'.  Only the first build_update pattern
\* has a placeholder ({feature}) whose value is not fixed.
Literal(family, p) ==
    CASE family = "build_update"   -> <<"spent ...", "debugging ...", "new record: ...">>[p - 1]
      [] family = "lesson_learned" -> <<"thing i learned today", "mistake i made", "after ...", "unsexy truth">>[p]
      [] family = "behind_scenes"  -> <<"building in public", "what my stream", "24/7 uptime", "people see">>[p]
      [] family = "hot_take"       -> <<"hot take:", "everyone's talking", "unpopular opinion:", "the ... discourse">>[p]
      [] family = "prediction"     -> <<"prediction:", "by ...", "contrarian bet:", "calling it now:">>[p]

\* generateTweet's text for an idea of the family with pattern p chosen.
TweetText(family, p, message) ==
    IF family = "build_update" /\ p = 1
    THEN <<"just shipped:", " ">> \o message \o <<". pushed in today.", "\n", "\n", "build log: ...">>
    ELSE <<Literal(family, p)>>

\* An insertion that puts x before the entries of its own priority.
RECURSIVE InsertBeforeEqual(_, _)
InsertBeforeEqual(x, s) ==
    IF s = <<>> THEN <<x>>
    ELSE IF Priority(x) >= Priority(Head(s)) THEN <<x>> \o s
    ELSE <<Head(s)>> \o InsertBeforeEqual(x, Tail(s))

\* Stable insertion of x into a list sorted by non-increasing priority.
RECURSIVE InsertByPriority(_, _)
InsertByPriority(x, s) ==
    IF s = <<>> THEN <<x>>
    ELSE IF Priority(x) > Priority(Head(s)) THEN <<x>> \o s
    ELSE <<Head(s)>> \o InsertByPriority(x, Tail(s))

\* ideas.sort((a, b) => b.priority - a.priority), stable
RECURSIVE SortByPriority(_)
SortByPriority(s) ==
    IF s = <<>> THEN <<>>
    ELSE InsertByPriority(s[Len(s)], SortByPriority(SubSeq(s, 1, Len(s) - 1)))

UnsortedIdeas(commit, mood) ==
    (IF commit # NoCommit THEN <<"build_update">> ELSE <<>>)
    \o (IF mood = "wins" THEN <<"behind_scenes">>
        ELSE IF mood = "problems" THEN <<"lesson_learned">> ELSE <<>>)

\* generateIdeas: the families of the ideas, in the order returned.
generateIdeas(commit, mood) ==
    LET ideas == UnsortedIdeas(commit, mood)
    IN  SortByPriority(IF Len(ideas) < 3 THEN ideas \o <<"hot_take", "prediction">> ELSE ideas)

ContentId(t, i) == <<"content", t, i>>

ContentSchema ==
    Schema(<<"text", "type", "priority", "generated", "id", "status",
             "approvedAt", "rejectedAt", "postedAt", "tweetId">>,
           {"approvedAt", "rejectedAt", "postedAt", "tweetId"})

\* generateTweet(ideas[i]) spread into the new queue item of generateQueue.
NewItem(family, p, message, t, i) ==
    [ id |-> ContentId(t, i),
      text |-> TweetText(family, p, message),
      type |-> family,
      priority |-> Priority(family),
      generated |-> t,
      status |-> "pending",
      approvedAt |-> Unset, rejectedAt |-> Unset, postedAt |-> Unset, tweetId |-> Unset ]

SomeNormalizesTo(items, normalized) ==
    \E k \in DOMAIN items : Normalize(items[k].text) = normalized

isDuplicate(q, p, text) ==
    SomeNormalizesTo(q, Normalize(text)) \/ SomeNormalizesTo(p, Normalize(text))

\* The tweets generateQueue builds, one per offered idea, before the duplicate check.
Offered(count, commit, mood) ==
    LET n == Len(generateIdeas(commit, mood))
    IN  IF count < 0 THEN 0 ELSE Min(count, n)

Candidates(count, commit, mood, pick, t) ==
    LET ideas == generateIdeas(commit, mood)
    IN  [k \in 1..Offered(count, commit, mood) |-> NewItem(ideas[k], pick[k], commit, t, k - 1)]

Admitted(q, p, candidates) ==
    LET Fresh(c) == ~isDuplicate(q, p, c.text)
    IN  SelectSeq(candidates, Fresh)

\* [...this.queue, ...newItems] without the slice.
CapQueueUnbounded(q, newItems) == q \o newItems

\* [...this.queue, ...newItems].slice(0, CONFIG.maxQueueSize)
CapQueue(q, newItems) ==
    SubSeq(q \o newItems, 1, Min(Len(q) + Len(newItems), maxQueueSize))

\* queue.find(i => i.id === id) / findIndex: the first position holding id, 0 if none.
FindIndex(s, id) ==
    IF \E k \in DOMAIN s : s[k].id = id
    THEN CHOOSE k \in DOMAIN s : s[k].id = id /\ \A j \in 1..(k - 1) : s[j].id # id
    ELSE 0

RemoveAt(s, k) == SubSeq(s, 1, k - 1) \o SubSeq(s, k + 1, Len(s))

\* The queue an earlier run of the tool left in content-queue.json: n pending
\* build updates, each queued by its own `generate 1` at tick -n .. -1 from a
\* commit message of its own.
SeedMessage(k) ==
    << <<"c1">>, <<"c2">>, <<"c3">>, <<"c4">>, <<"c5">>, <<"c6">>, <<"c7">>, <<"c8">>, <<"c9">>, <<"c10">>,
       <<"c11">>, <<"c12">>, <<"c13">>, <<"c14">>, <<"c15">>, <<"c16">>, <<"c17">>, <<"c18">>, <<"c19">> >>[k]
SeedQueue(n) == [k \in 1..n |-> NewItem("build_update", 1, SeedMessage(k), k - n - 1, 0)]
SeedSizes == {0, maxQueueSize - 1}

Counts == {1, 5}
\* Math.floor(Math.random() * templates.length) for each offered idea in turn:
\* the runs of draws that land on the same pattern every time.
Picks(n) == { [k \in 1..n |-> p] : p \in {1, 2} }

\* Id arguments: the first item of a batch queued at tick 0 (no such item exists
\* until then, or once it is posted).
ContentIdArgs == { ContentId(0, 0) }

GenerateQueue(count, commit, mood, pick) ==
    LET newItems == Admitted(queue, posted, Candidates(count, commit, mood, pick, now))
    IN  /\ script = "content" /\ running
        /\ generated < MaxGenerate
        /\ generated' = generated + 1
        /\ Save(queue', queueFile', queueFile, ContentSchema,
                CapQueue(queue, newItems),
                Call("generateQueue", <<>>, "newItems", {"queue"}, newItems))
        /\ UNCHANGED <<script, now, posted, postedFile, clipVars, predictionVars, bookingVars>>

ContentApprove(id) ==
    LET k == FindIndex(queue, id)
    IN  /\ script = "content" /\ running
        /\ IF k = 0
           THEN /\ last' = Call("content.approve", id, "null", {}, <<>>)
                /\ UNCHANGED <<queue, queueFile, procVars>>
           ELSE /\ Save(queue', queueFile', queueFile, ContentSchema,
                        [queue EXCEPT ![k].status = "approved", ![k].approvedAt = At(now)],
                        On(Call("content.approve", id, "item", {"queue"}, <<>>), queue[k].status = "approved", queue[k].approvedAt))
        /\ UNCHANGED <<script, now, posted, postedFile, generated, clipVars, predictionVars, bookingVars>>

\* reject() that rejects every item of the queue once it has found the one
\* with the id.
ContentRejectAll(id) ==
    LET k == FindIndex(queue, id)
    IN  /\ script = "content" /\ running
        /\ IF k = 0
           THEN /\ last' = Call("content.reject", id, "null", {}, <<>>)
                /\ UNCHANGED <<queue, queueFile, procVars>>
           ELSE /\ Save(queue', queueFile', queueFile, ContentSchema,
                        [j \in DOMAIN queue |->
                            [queue[j] EXCEPT !.status = "rejected", !.rejectedAt = At(now)]],
                        On(Call("content.reject", id, "item", {"queue"}, <<>>), queue[k].status = "rejected", queue[k].rejectedAt))
        /\ UNCHANGED <<script, now, posted, postedFile, generated, clipVars, predictionVars, bookingVars>>

ContentReject(id) ==
    LET k == FindIndex(queue, id)
    IN  /\ script = "content" /\ running
        /\ IF k = 0
           THEN /\ last' = Call("content.reject", id, "null", {}, <<>>)
                /\ UNCHANGED <<queue, queueFile, procVars>>
           ELSE /\ Save(queue', queueFile', queueFile, ContentSchema,
                        [queue EXCEPT ![k].status = "rejected", ![k].rejectedAt = At(now)],
                        On(Call("content.reject", id, "item", {"queue"}, <<>>), queue[k].status = "rejected", queue[k].rejectedAt))
        /\ UNCHANGED <<script, now, posted, postedFile, generated, clipVars, predictionVars, bookingVars>>

MarkPosted(id) ==
    LET k == FindIndex(queue, id)
        item == [queue[k] EXCEPT !.status = "posted",
                                 !.postedAt = At(now),
                                 !.tweetId = <<"mock_tweet_id">>]
        call == On(Call("content.markPosted", id, "item", {"queue", "posted"}, <<>>),
                   queue[k].status = "posted", queue[k].postedAt)
    IN  /\ script = "content" /\ running
        /\ IF k = 0
           THEN /\ last' = Call("content.markPosted", id, "undefined", {}, <<>>)
                /\ UNCHANGED <<queue, queueFile, posted, postedFile, procVars>>
           ELSE \* this.saveQueue(); this.savePosted(): the process can die inside
                \* either write, or between the two.
                \E w \in WriteOutcomes(queueFile, Stringify(ContentSchema, RemoveAt(queue, k))),
                   v \in WriteOutcomes(postedFile, Stringify(ContentSchema, Append(posted, item)))
                            \cup {[file |-> postedFile, done |-> FALSE]} :
                   /\ queueFile' = w.file
                   /\ postedFile' = IF w.done THEN v.file ELSE postedFile
                   /\ running' = (w.done /\ v.done)
                   /\ queue' = IF w.done /\ v.done THEN RemoveAt(queue, k) ELSE <<>>
                   /\ posted' = IF w.done /\ v.done THEN Append(posted, item) ELSE <<>>
                   /\ last' = IF w.done /\ v.done THEN call
                              ELSE Call("content.markPosted", id, Crashed,
                                        IF w.done /\ v.file # postedFile
                                        THEN {"queue", "posted"} ELSE {"queue"}, <<>>)
        /\ UNCHANGED <<script, now, generated, clipVars, predictionVars, bookingVars>>

NextContent ==
    \/ \E count \in Counts, commit \in Messages \cup {NoCommit}, mood \in Moods :
          \E pick \in Picks(Offered(count, commit, mood)) :
             GenerateQueue(count, commit, mood, pick)
    \/ \E id \in ContentIdArgs : ContentApprove(id)
    \/ \E id \in ContentIdArgs : ContentReject(id)
    \/ \E id \in ContentIdArgs : MarkPosted(id)

\* The loop of generateQueue up to the duplicate check, as a function of what
\* the providers return: the tweets it builds from the ideas it is offered.
OfferCounts == {-1, 0, 1, 2, 3, 4, 5}

Offer(count, commit, mood, pick) ==
    /\ script = "content" /\ running
    /\ last' = With(Call("offer", <<>>, "candidates", {},
                         Candidates(count, commit, mood, pick, now)),
                    [count |-> count, commit |-> commit, mood |-> mood])
    /\ UNCHANGED <<script, now, contentVars, clipVars, predictionVars, bookingVars, procVars>>

NextOffer ==
    \E count \in OfferCounts, commit \in Messages \cup {NoCommit}, mood \in Moods :
       \E pick \in Picks(Offered(count, commit, mood)) :
          Offer(count, commit, mood, pick)

----------------------------------------------------------------------------
(***************************************************************************)
(* Clip detector.                                                          *)
(***************************************************************************)
chatSpike == 5
recentWindow == 10
snapshotSize == 5
viewerThreshold == 5
detectThreshold == 5

\* CONFIG.thresholds.keywordMatch, each keyword as its words and spaces.
keywordMatch ==
    { <<"holy", " ", "shit">>, <<"wtf">>, <<"insane">>, <<"brilliant">>, <<"game", " ", "changer">> }

Repeat(n, m) == [k \in 1..n |-> m]

\* array.slice(-n)
LastN(s, n) == SubSeq(s, Len(s) - Min(n, Len(s)) + 1, Len(s))

\* What the live-state provider may answer: nothing (fetch failed), or chat
\* messages (each message's text, one word here) and a viewer count.
Offline == [online |-> FALSE]
ChatLogs ==
    { <<>>, Repeat(4, "hi"), Repeat(5, "hi"), <<"WTF">>, <<"holy", "shit">>,
      <<"WTF">> \o Repeat(10, "hi") }
StreamStates ==
    {Offline} \cup { [online |-> TRUE, chatMessages |-> c, viewerCount |-> v] :
                       c \in ChatLogs, v \in {5, 6} }

LowerWord(w) == IF w = "WTF" THEN "wtf" ELSE ToLower(w)

\* recentMessages.map(m => m.message?.toLowerCase()).join(' ')
RECURSIVE JoinLower(_)
JoinLower(msgs) ==
    IF msgs = <<>> THEN <<>>
    ELSE IF Len(msgs) = 1 THEN <<LowerWord(msgs[1])>>
    ELSE <<LowerWord(msgs[1]), " ">> \o JoinLower(Tail(msgs))

\* text.includes(kw)
Includes(text, kw) ==
    \E k \in 0..(Len(text) - Len(kw)) : SubSeq(text, k + 1, k + Len(kw)) = kw

Indicators(state) ==
    LET recent == LastN(state.chatMessages, recentWindow)
        text == JoinLower(recent)
    IN  (IF Len(recent) >= chatSpike THEN <<"chat_spike">> ELSE <<>>)
        \o (IF \E kw \in keywordMatch : Includes(text, kw) THEN <<"viral_keywords">> ELSE <<>>)
        \o (IF state.viewerCount > viewerThreshold THEN <<"viewers">> ELSE <<>>)

\* Weights under which a chat spike counts 4.
WeightSpikeFour(type) ==
    CASE type = "chat_spike" -> 4
      [] type = "viral_keywords" -> 5
      [] type = "viewers" -> 1
      [] OTHER -> 0

Weight(type) ==
    CASE type = "chat_spike" -> 3
      [] type = "viral_keywords" -> 5
      [] type = "viewers" -> 1
      [] OTHER -> 0

RECURSIVE Score(_)
Score(indicators) ==
    IF indicators = <<>> THEN 0 ELSE Weight(Head(indicators)) + Score(Tail(indicators))

ClipId(t) == <<"clip", t>>

ClipSchema ==
    Schema(<<"id", "timestamp", "score", "indicators", "viewerCount", "messages",
             "status", "approvedAt">>,
           {"approvedAt"})

NewClip(state, t) ==
    [ id |-> ClipId(t),
      timestamp |-> t,
      score |-> Score(Indicators(state)),
      indicators |-> Indicators(state),
      viewerCount |-> state.viewerCount,
      messages |-> LastN(LastN(state.chatMessages, recentWindow), snapshotSize),
      status |-> "detected",
      approvedAt |-> Unset ]

ClipIdArgs == { ClipId(0), ClipId(1) }

\* detect() that loads the file again before it adds the clip.
DetectReloading(state) ==
    /\ script = "clip" /\ running
    /\ IF ~state.online
       THEN /\ last' = With(Call("detect", <<>>, "stream offline", {}, <<>>), state)
            /\ UNCHANGED <<clips, clipsFile, procVars>>
       ELSE IF Score(Indicators(state)) >= detectThreshold
       THEN /\ Len(clips) < MaxClips
            /\ Save(clips', clipsFile', clipsFile, ClipSchema,
                    Append(Load(ClipSchema, clipsFile).value, NewClip(state, now)),
                    With(Call("detect", <<>>, "detected", {"clips"}, <<NewClip(state, now)>>), state))
       ELSE /\ last' = With(Call("detect", <<>>, "not detected", {}, <<>>), state)
            /\ UNCHANGED <<clips, clipsFile, procVars>>
    /\ UNCHANGED <<script, now, approvedElsewhere, contentVars, predictionVars, bookingVars>>

\* detect() that asks the provider a second time when the first request
\* yields no state.
DetectRetrying(state) ==
    /\ script = "clip" /\ running
    /\ \E again \in StreamStates :
          LET seen == IF state.online THEN state ELSE again
          IN  IF ~seen.online
              THEN /\ last' = With(Call("detect", <<>>, "stream offline", {}, <<>>), state)
                   /\ UNCHANGED <<clips, clipsFile, procVars>>
              ELSE IF Score(Indicators(seen)) >= detectThreshold
              THEN /\ Len(clips) < MaxClips
                   /\ Save(clips', clipsFile', clipsFile, ClipSchema,
                           Append(clips, NewClip(seen, now)),
                           With(Call("detect", <<>>, "detected", {"clips"}, <<NewClip(seen, now)>>), state))
              ELSE /\ last' = With(Call("detect", <<>>, "not detected", {}, <<>>), state)
                   /\ UNCHANGED <<clips, clipsFile, procVars>>
    /\ UNCHANGED <<script, now, approvedElsewhere, contentVars, predictionVars, bookingVars>>

Detect(state) ==
    /\ script = "clip" /\ running
    /\ IF ~state.online
       THEN /\ last' = With(Call("detect", <<>>, "stream offline", {}, <<>>), state)
            /\ UNCHANGED <<clips, clipsFile, procVars>>
       ELSE IF Score(Indicators(state)) >= detectThreshold
       THEN /\ Len(clips) < MaxClips
            /\ Save(clips', clipsFile', clipsFile, ClipSchema,
                    Append(clips, NewClip(state, now)),
                    With(Call("detect", <<>>, "detected", {"clips"}, <<NewClip(state, now)>>), state))
       ELSE /\ last' = With(Call("detect", <<>>, "not detected", {}, <<>>), state)
            /\ UNCHANGED <<clips, clipsFile, procVars>>
    /\ UNCHANGED <<script, now, approvedElsewhere, contentVars, predictionVars, bookingVars>>

\* approve() that marks the clip posted.
ClipApprovePosts(id) ==
    LET k == FindIndex(clips, id)
    IN  /\ script = "clip" /\ running
        /\ IF k = 0
           THEN /\ last' = Call("clip.approve", id, "null", {}, <<>>)
                /\ UNCHANGED <<clips, clipsFile, procVars>>
           ELSE /\ Save(clips', clipsFile', clipsFile, ClipSchema,
                        [clips EXCEPT ![k].status = "posted", ![k].approvedAt = At(now)],
                        On(Call("clip.approve", id, "clip", {"clips"}, <<>>), clips[k].status = "approved", clips[k].approvedAt))
        /\ UNCHANGED <<script, now, approvedElsewhere, contentVars, predictionVars, bookingVars>>

\* approve() that leaves an approved clip as it is.
ClipApproveOnce(id) ==
    LET k == FindIndex(clips, id)
    IN  /\ script = "clip" /\ running
        /\ IF k = 0
           THEN /\ last' = Call("clip.approve", id, "null", {}, <<>>)
                /\ UNCHANGED <<clips, clipsFile, procVars>>
           ELSE /\ Save(clips', clipsFile', clipsFile, ClipSchema,
                        IF clips[k].status = "approved" THEN clips
                        ELSE [clips EXCEPT ![k].status = "approved", ![k].approvedAt = At(now)],
                        On(Call("clip.approve", id, "clip", {"clips"}, <<>>), clips[k].status = "approved", clips[k].approvedAt))
        /\ UNCHANGED <<script, now, approvedElsewhere, contentVars, predictionVars, bookingVars>>

\* approve() that turns an approved clip back into a detected one.
ClipApproveToggles(id) ==
    LET k == FindIndex(clips, id)
    IN  /\ script = "clip" /\ running
        /\ IF k = 0
           THEN /\ last' = Call("clip.approve", id, "null", {}, <<>>)
                /\ UNCHANGED <<clips, clipsFile, procVars>>
           ELSE /\ Save(clips', clipsFile', clipsFile, ClipSchema,
                        [clips EXCEPT ![k].status = IF @ = "approved" THEN "detected" ELSE "approved",
                                      ![k].approvedAt = At(now)],
                        On(Call("clip.approve", id, "clip", {"clips"}, <<>>), clips[k].status = "approved", clips[k].approvedAt))
        /\ UNCHANGED <<script, now, approvedElsewhere, contentVars, predictionVars, bookingVars>>

ClipApprove(id) ==
    LET k == FindIndex(clips, id)
    IN  /\ script = "clip" /\ running
        /\ IF k = 0
           THEN /\ last' = Call("clip.approve", id, "null", {}, <<>>)
                /\ UNCHANGED <<clips, clipsFile, procVars>>
           ELSE /\ Save(clips', clipsFile', clipsFile, ClipSchema,
                        [clips EXCEPT ![k].status = "approved", ![k].approvedAt = At(now)],
                        On(Call("clip.approve", id, "clip", {"clips"}, <<>>), clips[k].status = "approved", clips[k].approvedAt))
        /\ UNCHANGED <<script, now, approvedElsewhere, contentVars, predictionVars, bookingVars>>

\* `clip.js approve <id>` run as a process of its own while the process of
\* this behaviour (clip.js watch) is alive: it loads the file, approves and
\* saves, and knows nothing of the collection the other process holds.
ApproveElsewhere(id) ==
    LET loaded == Load(ClipSchema, clipsFile).value
        k == FindIndex(loaded, id)
    IN  /\ script = "clip" /\ running
        /\ IF k = 0
           THEN /\ last' = Call("approve elsewhere", id, "null", {}, <<>>)
                /\ UNCHANGED <<clipsFile, approvedElsewhere>>
           ELSE \E w \in WriteOutcomes(clipsFile,
                                       Stringify(ClipSchema,
                                                 [loaded EXCEPT ![k].status = "approved",
                                                                ![k].approvedAt = At(now)])) :
                   /\ clipsFile' = w.file
                   /\ approvedElsewhere' = IF w.done THEN approvedElsewhere \cup {id}
                                           ELSE approvedElsewhere
                   /\ last' = Call("approve elsewhere", id, IF w.done THEN "clip" ELSE Crashed,
                                   {"clips"}, <<>>)
        /\ UNCHANGED <<script, now, clips, procVars, contentVars, predictionVars, bookingVars>>

\* getPending()
ClipPending(cs) ==
    LET IsDetected(c) == c.status = "detected"
    IN  SelectSeq(cs, IsDetected)

\* stats()
ClipStatsOf(cs) ==
    [ total |-> Len(cs),
      pending |-> Len(ClipPending(cs)),
      approved |-> Cardinality({ k \in DOMAIN cs : cs[k].status = "approved" }),
      posted |-> Cardinality({ k \in DOMAIN cs : cs[k].status = "posted" }) ]

ClipStats ==
    /\ script = "clip" /\ running
    /\ last' = Call("clip.stats", <<>>, "stats", {}, <<ClipStatsOf(clips)>>)
    /\ UNCHANGED <<script, now, contentVars, clipVars, predictionVars, bookingVars, procVars>>

NextClip ==
    \/ \E state \in StreamStates : Detect(state)
    \/ \E id \in ClipIdArgs : ClipApprove(id)
    \/ \E id \in ClipIdArgs : ApproveElsewhere(id)
    \/ ClipStats

----------------------------------------------------------------------------
(***************************************************************************)
(* Predictions tracker.                                                    *)
(***************************************************************************)
PredId(t) == <<"pred", t>>

PredictionSchema ==
    Schema(<<"id", "prediction", "dateMade", "confidence", "category", "status",
             "resolutionDate", "notes", "outcome", "resolvedAt", "proof">>,
           {"outcome", "resolvedAt", "proof"})

\* The confidence argument of the add command and parseInt of it.
ConfidenceArgs == {"80", "high"}
ParseInt(a) == IF a = "80" THEN Number(80) ELSE NaN

\* add() that files the new prediction as resolved.
NewPredictionResolved(confidence, resolutionDate, t) ==
    [ id |-> PredId(t),
      prediction |-> "SOL hits 300",
      dateMade |-> t,
      confidence |-> confidence,
      category |-> "crypto",
      status |-> "resolved",
      resolutionDate |-> resolutionDate,
      notes |-> "",
      outcome |-> Unset, resolvedAt |-> Unset, proof |-> Unset ]

NewPrediction(confidence, resolutionDate, t) ==
    [ id |-> PredId(t),
      prediction |-> "SOL hits 300",
      dateMade |-> t,
      confidence |-> confidence,
      category |-> "crypto",
      status |-> "active",
      resolutionDate |-> resolutionDate,
      notes |-> "",
      outcome |-> Unset, resolvedAt |-> Unset, proof |-> Unset ]

\* The prediction an earlier run left in predictions.json: made and resolved
\* correct at tick -1.
SeedPredictions ==
    << [ NewPrediction(Number(80), 1, -1) EXCEPT !.status = "resolved",
                                                 !.outcome = <<"correct">>,
                                                 !.resolvedAt = At(-1),
                                                 !.proof = <<"">> ] >>

NewPredictions(ps) == Cardinality({ k \in DOMAIN ps : ps[k].dateMade >= 0 })

\* Resolution dates (days) and the outcome strings a caller may pass.
ResolutionDates == {1, 2}
OutcomeArgs == {"correct", "incorrect", "partial", "maybe"}
StatusFilters == {"all", "active", "resolved"}
PredIdArgs == { PredId(0), PredId(1) }

\* Stable insertion into a list sorted by non-decreasing resolutionDate.
RECURSIVE InsertByDate(_, _)
InsertByDate(x, s) ==
    IF s = <<>> THEN <<x>>
    ELSE IF x.resolutionDate < Head(s).resolutionDate THEN <<x>> \o s
    ELSE <<Head(s)>> \o InsertByDate(x, Tail(s))

\* preds.sort((a, b) => new Date(a.resolutionDate) - new Date(b.resolutionDate))
RECURSIVE SortByDate(_)
SortByDate(s) ==
    IF s = <<>> THEN <<>>
    ELSE InsertByDate(s[Len(s)], SortByDate(SubSeq(s, 1, Len(s) - 1)))

\* list: 'all' sorts this.predictions itself; a filter sorts a copy.
List(status) ==
    /\ script = "predictions" /\ running
    /\ predictions' = IF status = "all" THEN SortByDate(predictions) ELSE predictions
    /\ last' = Call("list", status, "preds", {}, <<>>)
    /\ UNCHANGED <<script, now, contentVars, clipVars, bookingVars, predictionsFile, procVars>>

Add(confidence, resolutionDate) ==
    /\ script = "predictions" /\ running
    /\ NewPredictions(predictions) < MaxPredictions
    /\ Save(predictions', predictionsFile', predictionsFile, PredictionSchema,
            Append(predictions, NewPrediction(confidence, resolutionDate, now)),
            Call("add", <<>>, "pred", {"predictions"}, <<NewPrediction(confidence, resolutionDate, now)>>))
    /\ UNCHANGED <<script, now, contentVars, clipVars, bookingVars>>

\* resolve() that records the outcome and leaves the status as it is.
ResolveKeepsStatus(id, outcome) ==
    LET k == FindIndex(predictions, id)
    IN  /\ script = "predictions" /\ running
        /\ IF k = 0
           THEN /\ last' = With(Call("resolve", id, "null", {}, <<>>), outcome)
                /\ UNCHANGED <<predictions, predictionsFile, procVars>>
           ELSE /\ Save(predictions', predictionsFile', predictionsFile, PredictionSchema,
                        [predictions EXCEPT ![k].outcome = <<outcome>>, ![k].resolvedAt = At(now), ![k].proof = <<"">>],
                        With(On(Call("resolve", id, "pred", {"predictions"}, <<>>),
                                predictions[k].status = "resolved", predictions[k].resolvedAt), outcome))
        /\ UNCHANGED <<script, now, contentVars, clipVars, bookingVars>>

Resolve(id, outcome) ==
    LET k == FindIndex(predictions, id)
    IN  /\ script = "predictions" /\ running
        /\ IF k = 0
           THEN /\ last' = With(Call("resolve", id, "null", {}, <<>>), outcome)
                /\ UNCHANGED <<predictions, predictionsFile, procVars>>
           ELSE /\ Save(predictions', predictionsFile', predictionsFile, PredictionSchema,
                        [predictions EXCEPT ![k].status = "resolved", ![k].outcome = <<outcome>>, ![k].resolvedAt = At(now), ![k].proof = <<"">>],
                        With(On(Call("resolve", id, "pred", {"predictions"}, <<>>),
                                predictions[k].status = "resolved", predictions[k].resolvedAt), outcome))
        /\ UNCHANGED <<script, now, contentVars, clipVars, bookingVars>>

Count(ps, Test(_)) == Cardinality({ k \in DOMAIN ps : Test(ps[k]) })

\* x.toFixed(1) of x = correct / resolved * 100, in tenths: the nearest tenth,
\* the larger one on a tie.
ToFixed1(correct, resolved) == (2000 * correct + resolved) \div (2 * resolved)

\* toFixed(1) that cuts the further digits off.
AccuracyTruncated(ps) ==
    LET IsResolved(p) == p.status = "resolved"
        IsCorrect(p) == p.status = "resolved" /\ p.outcome = <<"correct">>
    IN  IF Count(ps, IsResolved) > 0
        THEN [kind |-> "string", tenths |-> (1000 * Count(ps, IsCorrect)) \div Count(ps, IsResolved)]
        ELSE [kind |-> "number", tenths |-> 0]

\* resolved.length > 0 ? (correct.length / resolved.length * 100).toFixed(1) : 0
\* a string of tenths, or the number 0.
Accuracy(ps) ==
    LET IsResolved(p) == p.status = "resolved"
        IsCorrect(p) == p.status = "resolved" /\ p.outcome = <<"correct">>
    IN  IF Count(ps, IsResolved) > 0
        THEN [kind |-> "string", tenths |-> ToFixed1(Count(ps, IsCorrect), Count(ps, IsResolved))]
        ELSE [kind |-> "number", tenths |-> 0]

StatsOf(ps) ==
    LET IsActive(p) == p.status = "active"
        IsResolved(p) == p.status = "resolved"
        HasCorrect(p) == p.outcome = <<"correct">>
    IN  [ total |-> Len(ps),
          active |-> Count(ps, IsActive),
          resolved |-> Count(ps, IsResolved),
          accuracy |-> Accuracy(ps),
          byCategory |-> IF ps = <<>> THEN <<>>
                         ELSE <<[category |-> "crypto", total |-> Len(ps), correct |-> Count(ps, HasCorrect)]>> ]

Stats ==
    /\ script = "predictions" /\ running
    /\ last' = Call("stats", <<>>, "stats", {}, <<StatsOf(predictions)>>)
    /\ UNCHANGED <<script, now, contentVars, clipVars, predictionVars, bookingVars, procVars>>

NextPredictions ==
    \/ \E c \in ConfidenceArgs, d \in ResolutionDates : Add(ParseInt(c), d)
    \/ Stats
    \/ \E id \in PredIdArgs, outcome \in OutcomeArgs : Resolve(id, outcome)
    \/ \E status \in StatusFilters : List(status)

----------------------------------------------------------------------------
(***************************************************************************)
(* Booking system.                                                         *)
(***************************************************************************)
priceUSD == 50
maxPerWeek == 5
DaysPerWeek == 7

Users == {"u1", "u2"}

\* Tick 0 is the first tick of a Tuesday; the week starts on Sunday (getDay() = 0).
ClockOrigin == 2 * TicksPerDay

\* now.getDay()
GetDay(t) == ((t + ClockOrigin) \div TicksPerDay) % DaysPerWeek

\* new Date(now.setDate(now.getDate() - now.getDay())): getDay() days back, at
\* the same time of day.
WeekStart(t) == t - GetDay(t) * TicksPerDay

\* The calendar week (Sunday 00:00 to Saturday 24:00) a tick falls in.
CalendarWeek(t) == (t + ClockOrigin) \div (TicksPerDay * DaysPerWeek)

\* getThisWeekBookings: the positions of the bookings it returns.
ThisWeekBookings(bs, t) == { k \in DOMAIN bs : bs[k].submittedAt >= WeekStart(t) }

\* A pending check that looks at the first booking only.
HasPendingFirstOnly(bs, user) ==
    bs # <<>> /\ bs[1].user = user /\ bs[1].status = "pending"

\* this.bookings.find(b => b.user === user && b.status === 'pending')
HasPending(bs, user) == \E k \in DOMAIN bs : bs[k].user = user /\ bs[k].status = "pending"

\* A capacity check that is off by one (> for >=).
FullyBookedOffByOne(bs, t) == Cardinality(ThisWeekBookings(bs, t)) > maxPerWeek

\* thisWeek.length >= CONFIG.maxPerWeek
FullyBooked(bs, t) == Cardinality(ThisWeekBookings(bs, t)) >= maxPerWeek

BookingId(t) == <<"booking", t>>

BookingSchema ==
    Schema(<<"id", "user", "price", "status", "submittedAt", "paid", "solanaTx",
             "scheduledTime", "approvedAt", "paidAt", "completedAt", "notes">>,
           {"solanaTx", "scheduledTime", "approvedAt", "paidAt", "completedAt", "notes"})

NewBooking(user, t) ==
    [ id |-> BookingId(t),
      user |-> user,
      price |-> priceUSD,
      status |-> "pending",
      submittedAt |-> t,
      paid |-> FALSE,
      solanaTx |-> Unset,
      scheduledTime |-> Unset, approvedAt |-> Unset, paidAt |-> Unset,
      completedAt |-> Unset, notes |-> Unset ]

\* The bookings an earlier run left in bookings.json: maxPerWeek - 1 sessions
\* of u1, submitted one per tick on the Sunday and Monday before tick 0, each
\* approved, paid and completed at its tick.
SeedBooking(t) ==
    [ NewBooking("u1", t) EXCEPT !.status = "completed", !.paid = TRUE,
                                 !.solanaTx = <<"tx">>, !.scheduledTime = <<"slot">>,
                                 !.approvedAt = At(t), !.paidAt = At(t),
                                 !.completedAt = At(t), !.notes = <<"">> ]
SeedBookings == [k \in 1..(maxPerWeek - 1) |-> SeedBooking(k - maxPerWeek)]

NewBookings(bs) == Cardinality({ k \in DOMAIN bs : bs[k].submittedAt >= 0 })

BookingIdArgs == { BookingId(0), BookingId(1) }

Submit(user) ==
    /\ script = "booking" /\ running
    /\ IF HasPending(bookings, user)
       THEN /\ last' = Call("submit", user, "You already have a pending booking request", {}, <<>>)
            /\ UNCHANGED <<bookings, bookingsFile, procVars>>
       ELSE IF FullyBooked(bookings, now)
       THEN /\ last' = Call("submit", user, "This week is fully booked. Try next week.", {}, <<>>)
            /\ UNCHANGED <<bookings, bookingsFile, procVars>>
       ELSE /\ NewBookings(bookings) < MaxNewBookings
            /\ Save(bookings', bookingsFile', bookingsFile, BookingSchema,
                    Append(bookings, NewBooking(user, now)),
                    Call("submit", user, "success", {"bookings"}, <<NewBooking(user, now)>>))
    /\ UNCHANGED <<script, now, contentVars, clipVars, predictionVars>>

BookingApprove(id) ==
    LET k == FindIndex(bookings, id)
    IN  /\ script = "booking" /\ running
        /\ IF k = 0
           THEN /\ last' = Call("booking.approve", id, "Booking not found", {}, <<>>)
                /\ UNCHANGED <<bookings, bookingsFile, procVars>>
           ELSE /\ Save(bookings', bookingsFile', bookingsFile, BookingSchema,
                        [bookings EXCEPT ![k].status = "approved", ![k].scheduledTime = <<"slot">>, ![k].approvedAt = At(now)],
                        On(Call("booking.approve", id, "success", {"bookings"}, <<>>),
                             bookings[k].status = "approved", bookings[k].approvedAt))
        /\ UNCHANGED <<script, now, contentVars, clipVars, predictionVars>>

\* markPaid that also rewrites approvedAt.
MarkPaidStampsApproval(id) ==
    LET k == FindIndex(bookings, id)
    IN  /\ script = "booking" /\ running
        /\ IF k = 0
           THEN /\ last' = Call("markPaid", id, "Booking not found", {}, <<>>)
                /\ UNCHANGED <<bookings, bookingsFile, procVars>>
           ELSE /\ Save(bookings', bookingsFile', bookingsFile, BookingSchema,
                        [bookings EXCEPT ![k].paid = TRUE, ![k].solanaTx = <<"tx">>,
                                         ![k].paidAt = At(now), ![k].approvedAt = At(now)],
                        On(Call("markPaid", id, "success", {"bookings"}, <<>>),
                             bookings[k].paid, bookings[k].paidAt))
        /\ UNCHANGED <<script, now, contentVars, clipVars, predictionVars>>

MarkPaid(id) ==
    LET k == FindIndex(bookings, id)
    IN  /\ script = "booking" /\ running
        /\ IF k = 0
           THEN /\ last' = Call("markPaid", id, "Booking not found", {}, <<>>)
                /\ UNCHANGED <<bookings, bookingsFile, procVars>>
           ELSE /\ Save(bookings', bookingsFile', bookingsFile, BookingSchema,
                        [bookings EXCEPT ![k].paid = TRUE, ![k].solanaTx = <<"tx">>, ![k].paidAt = At(now)],
                        On(Call("markPaid", id, "success", {"bookings"}, <<>>),
                             bookings[k].paid, bookings[k].paidAt))
        /\ UNCHANGED <<script, now, contentVars, clipVars, predictionVars>>

\* complete() that saves before it looks the booking up.
CompleteSavesWhenMissing(id) ==
    LET k == FindIndex(bookings, id)
    IN  /\ script = "booking" /\ running
        /\ IF k = 0
           THEN Save(bookings', bookingsFile', bookingsFile, BookingSchema, bookings,
                     Call("complete", id, "Booking not found", {"bookings"}, <<>>))
           ELSE /\ Save(bookings', bookingsFile', bookingsFile, BookingSchema,
                        [bookings EXCEPT ![k].status = "completed", ![k].completedAt = At(now), ![k].notes = <<"">>],
                        On(Call("complete", id, "success", {"bookings"}, <<>>),
                             bookings[k].status = "completed", bookings[k].completedAt))
        /\ UNCHANGED <<script, now, contentVars, clipVars, predictionVars>>

Complete(id) ==
    LET k == FindIndex(bookings, id)
    IN  /\ script = "booking" /\ running
        /\ IF k = 0
           THEN /\ last' = Call("complete", id, "Booking not found", {}, <<>>)
                /\ UNCHANGED <<bookings, bookingsFile, procVars>>
           ELSE /\ Save(bookings', bookingsFile', bookingsFile, BookingSchema,
                        [bookings EXCEPT ![k].status = "completed", ![k].completedAt = At(now), ![k].notes = <<"">>],
                        On(Call("complete", id, "success", {"bookings"}, <<>>),
                             bookings[k].status = "completed", bookings[k].completedAt))
        /\ UNCHANGED <<script, now, contentVars, clipVars, predictionVars>>

\* The calendar of getStats, scaled down: a month of DaysPerMonth days, a year
\* of MonthsPerYear months; tick 0 is the first tick of the first month of
\* year 1.
MonthIndex(t) == (t + MonthsPerYear * DaysPerMonth * TicksPerDay) \div (DaysPerMonth * TicksPerDay)

\* date.getMonth(), date.getFullYear()
GetMonth(t) == MonthIndex(t) % MonthsPerYear
GetFullYear(t) == MonthIndex(t) \div MonthsPerYear

\* this.bookings.filter(b => b.status === 'completed')
Completed(bs) ==
    LET IsCompleted(b) == b.status = "completed"
    IN  SelectSeq(bs, IsCompleted)

\* A month filter that compares the month and not the year.
ThisMonthAnyYear(completed, t) ==
    LET SameMonth(b) ==
            /\ b.completedAt # Unset
            /\ GetMonth(b.completedAt[1]) = GetMonth(t)
    IN  SelectSeq(completed, SameMonth)

\* completed.filter(b => same month and same year as now); new Date(undefined)
\* is an invalid date, which matches no month.
ThisMonth(completed, t) ==
    LET SameMonth(b) ==
            /\ b.completedAt # Unset
            /\ GetMonth(b.completedAt[1]) = GetMonth(t)
            /\ GetFullYear(b.completedAt[1]) = GetFullYear(t)
    IN  SelectSeq(completed, SameMonth)

\* bs.reduce((sum, b) => sum + b.price, 0)
RECURSIVE SumPrice(_)
SumPrice(bs) == IF bs = <<>> THEN 0 ELSE Head(bs).price + SumPrice(Tail(bs))

\* getUpcoming(): the approved and paid bookings.
Upcoming(bs) ==
    LET IsUpcoming(b) == b.status = "approved" /\ b.paid
    IN  SelectSeq(bs, IsUpcoming)

\* getStats()
GetStatsOf(bs, t) ==
    [ totalBookings |-> Len(bs),
      pending |-> Cardinality({ k \in DOMAIN bs : bs[k].status = "pending" }),
      approved |-> Cardinality({ k \in DOMAIN bs : bs[k].status = "approved" }),
      completed |-> Len(Completed(bs)),
      totalRevenue |-> SumPrice(Completed(bs)),
      thisMonthRevenue |-> SumPrice(ThisMonth(Completed(bs), t)),
      upcoming |-> Len(Upcoming(bs)) ]

GetStats ==
    /\ script = "booking" /\ running
    /\ last' = Call("getStats", <<>>, "stats", {}, <<GetStatsOf(bookings, now)>>)
    /\ UNCHANGED <<script, now, contentVars, clipVars, predictionVars, bookingVars, procVars>>

NextBooking ==
    \/ \E user \in Users : Submit(user)
    \/ \E id \in BookingIdArgs : BookingApprove(id)
    \/ \E id \in BookingIdArgs : MarkPaid(id)
    \/ \E id \in BookingIdArgs : Complete(id)
    \/ GetStats

----------------------------------------------------------------------------
(***************************************************************************)
(* The clock, the constructors and the specifications.                     *)
(***************************************************************************)
Scripts == {"content", "clip", "predictions", "booking"}

\* Date.now() advances.  In a behaviour of the content tool the clock moves
\* only before the first generateQueue: what is generated and what is done to
\* it then happen at one clock reading, which may differ from that of the
\* items an earlier run left in the queue.
Tick ==
    /\ now < (IF script = "content" THEN MaxContentTime ELSE MaxTime)
    /\ script = "content" => generated = 0
    /\ now' = now + 1
    /\ last' = Call("tick", <<>>, "", {}, <<>>)
    /\ UNCHANGED <<script, contentVars, clipVars, predictionVars, bookingVars, procVars>>

\* A constructor: a new process of the tool loads its stores.
Loaded(ls) ==
    Call("new", <<>>, IF \E k \in DOMAIN ls : ls[k].threw THEN "throw" ELSE "loaded", {}, <<>>)

NewContentEngine ==
    LET q == Load(ContentSchema, queueFile)
        p == Load(ContentSchema, postedFile)
    IN  /\ script = "content"
        /\ running' = TRUE
        /\ queue' = q.value
        /\ posted' = p.value
        /\ last' = Loaded(<<q, p>>)
        /\ UNCHANGED <<script, now, queueFile, postedFile, generated,
                       clipVars, predictionVars, bookingVars>>

NewClipDetector ==
    LET c == Load(ClipSchema, clipsFile)
    IN  /\ script = "clip"
        /\ running' = TRUE
        /\ clips' = c.value
        /\ last' = Loaded(<<c>>)
        /\ UNCHANGED <<script, now, clipsFile, approvedElsewhere, contentVars, predictionVars, bookingVars>>

NewPredictionsTracker ==
    LET r == Load(PredictionSchema, predictionsFile)
    IN  /\ script = "predictions"
        /\ running' = TRUE
        /\ predictions' = r.value
        /\ last' = Loaded(<<r>>)
        /\ UNCHANGED <<script, now, predictionsFile, contentVars, clipVars, bookingVars>>

NewBookingSystem ==
    LET b == Load(BookingSchema, bookingsFile)
    IN  /\ script = "booking"
        /\ running' = TRUE
        /\ bookings' = b.value
        /\ last' = Loaded(<<b>>)
        /\ UNCHANGED <<script, now, bookingsFile, contentVars, clipVars, predictionVars>>

\* The files as earlier runs left them, and each constructor's load().
Init ==
    /\ script \in Scripts
    /\ now = 0
    /\ queueFile \in (IF script = "content"
                      THEN { SeedFile(ContentSchema, SeedQueue(n)) : n \in SeedSizes }
                      ELSE { Missing })
    /\ postedFile = Missing
    /\ clipsFile = Missing
    /\ predictionsFile \in (IF script = "predictions"
                            THEN { Missing, SeedFile(PredictionSchema, SeedPredictions) }
                            ELSE { Missing })
    /\ bookingsFile \in (IF script = "booking"
                         THEN { Missing, SeedFile(BookingSchema, SeedBookings) }
                         ELSE { Missing })
    /\ queue = Load(ContentSchema, queueFile).value
    /\ posted = Load(ContentSchema, postedFile).value
    /\ clips = Load(ClipSchema, clipsFile).value
    /\ approvedElsewhere = {}
    /\ predictions = Load(PredictionSchema, predictionsFile).value
    /\ bookings = Load(BookingSchema, bookingsFile).value
    /\ generated = 0
    /\ running = TRUE
    /\ last = Call("new", <<>>, "loaded", {}, <<>>)

Next ==
    \/ NextContent \/ NextClip \/ NextPredictions \/ NextBooking \/ Tick
    \/ NewContentEngine \/ NewClipDetector \/ NewPredictionsTracker \/ NewBookingSystem

Spec == Init /\ [][Next]_vars

InitContent == Init /\ script = "content"
SpecContent == InitContent /\ [][NextContent \/ NewContentEngine \/ Tick]_vars
SpecOffer == InitContent /\ [][NextOffer]_vars

InitClip == Init /\ script = "clip"
SpecClip == InitClip /\ [][NextClip \/ NewClipDetector \/ Tick]_vars

InitPredictions == Init /\ script = "predictions"
SpecPredictions == InitPredictions /\ [][NextPredictions \/ NewPredictionsTracker \/ Tick]_vars

InitBooking == Init /\ script = "booking"
SpecBooking == InitBooking /\ [][NextBooking \/ NewBookingSystem \/ Tick]_vars

----------------------------------------------------------------------------
(***************************************************************************)
(* Properties.                                                             *)
(***************************************************************************)
IdAbsent(store, id) == \A k \in DOMAIN store : store[k].id # id

ContentTransitions == {"content.approve", "content.reject", "content.markPosted"}
BookingTransitions == {"booking.approve", "markPaid", "complete"}
Transitions == ContentTransitions \cup {"clip.approve", "resolve"} \cup BookingTransitions

\* The in-memory store a transition looks its id up in.
StoreOf(op) ==
    CASE op \in ContentTransitions -> queue
      [] op = "clip.approve" -> clips
      [] op = "resolve" -> predictions
      [] op \in BookingTransitions -> bookings

memory == <<queue, posted, clips, predictions, bookings>>
files == <<queueFile, postedFile, clipsFile, predictionsFile, bookingsFile>>

\* C1: every record in the posted archive was approved before it was posted:
\* it carries an approvedAt timestamp.
C1_PostedOnlyAfterApproval ==
    \A k \in DOMAIN posted : posted[k].approvedAt # Unset

\* C2: rejected is terminal: a queue item whose status is rejected is still in
\* the queue, unchanged, after every call a live process makes.
C2_RejectedIsTerminal ==
    [][(running' /\ last'.op \in ContentTransitions \cup {"generateQueue"})
          => \A k \in DOMAIN queue :
                queue[k].status = "rejected" => \E j \in DOMAIN queue' : queue'[j] = queue[k]]_vars

\* C3: a booking's status only moves forward: the only status changes are
\* pending to approved and approved to completed.
C3_BookingStatusForwardOnly ==
    [][\A k \in DOMAIN bookings \cap DOMAIN bookings' :
          \/ bookings'[k].id # bookings[k].id
          \/ bookings'[k].status = bookings[k].status
          \/ <<bookings[k].status, bookings'[k].status>>
                \in { <<"pending", "approved">>, <<"approved", "completed">> }]_vars

\* C4: every resolved prediction has an outcome among correct, incorrect, partial.
C4_ResolvedOutcomeValid ==
    \A k \in DOMAIN predictions :
        predictions[k].status = "resolved"
            => predictions[k].outcome \in { <<"correct">>, <<"incorrect">>, <<"partial">> }

\* What each transition returns for an id its store does not hold.
NotFoundResult(op) ==
    CASE op \in {"content.approve", "content.reject", "clip.approve", "resolve"} -> "null"
      [] op = "content.markPosted" -> "undefined"
      [] op \in BookingTransitions -> "Booking not found"

HoldersOf(normalized) ==
    Cardinality({ k \in DOMAIN queue : Normalize(queue[k].text) = normalized })
    + Cardinality({ k \in DOMAIN posted : Normalize(posted[k].text) = normalized })

\* C6: of the candidates that share a normalized text exactly one is admitted:
\* no two records of queue and posted archive share a normalized text, and once
\* generateQueue has admitted a candidate exactly one record holds its
\* normalized text.
C6_ExactlyOnePerNormalizedText ==
    /\ \A k \in DOMAIN queue : HoldersOf(Normalize(queue[k].text)) = 1
    /\ \A k \in DOMAIN posted : HoldersOf(Normalize(posted[k].text)) = 1
    /\ last.op = "generateQueue"
          => \A k \in DOMAIN last.new : HoldersOf(Normalize(last.new[k].text)) = 1

\* C7: the items generateQueue has just admitted are in the queue after the call.
C7_NewItemsKept ==
    last.op = "generateQueue"
        => \A k \in DOMAIN last.new : \E j \in DOMAIN queue : queue[j] = last.new[k]

CountedThisWeek == Cardinality({ k \in DOMAIN bookings : bookings[k].submittedAt >= WeekStart(now) })
PendingOf(user) == { k \in DOMAIN bookings : bookings[k].user = user /\ bookings[k].status = "pending" }

CapacityError == "This week is fully booked. Try next week."
DuplicateError == "You already have a pending booking request"

\* C8 (as stated): submit called when the bookings counted in the current week
\* equal maxPerWeek returns the capacity error, appends nothing and writes no file.
C8_FullWeekReturnsCapacityError ==
    [][(last'.op = "submit" /\ CountedThisWeek = maxPerWeek)
          => /\ last'.result = CapacityError
             /\ last'.wrote = {}
             /\ UNCHANGED <<bookings, bookingsFile, procVars>>]_vars

\* C8 (amended): submit called when the bookings counted in the current week
\* equal maxPerWeek returns an error value, appends nothing and writes no file;
\* the error is the capacity error unless the user already has a pending
\* booking, and then it is the duplicate-request error.
C8_FullWeekRejectsSubmit ==
    [][(last'.op = "submit" /\ CountedThisWeek = maxPerWeek)
          => /\ last'.result = IF PendingOf(last'.id) # {} THEN DuplicateError ELSE CapacityError
             /\ last'.wrote = {}
             /\ UNCHANGED <<bookings, bookingsFile, procVars>>]_vars

\* C8 witness: a submit has been turned away with the capacity error.
C8_CapacityErrorReached ==
    /\ last.op = "submit"
    /\ last.result = CapacityError
    /\ CountedThisWeek = maxPerWeek

\* C9: no calendar week holds more than maxPerWeek submitted bookings.
C9_AtMostMaxPerCalendarWeek ==
    \A k \in DOMAIN bookings :
        Cardinality({ j \in DOMAIN bookings :
                        CalendarWeek(bookings[j].submittedAt) = CalendarWeek(bookings[k].submittedAt) })
            <= maxPerWeek

\* C10: every user has at most one pending booking, and a submit by a user who
\* has a pending booking returns the duplicate-request error, appends nothing
\* and writes no file.
C10_OnePendingPerUser ==
    /\ [](\A user \in Users : Cardinality(PendingOf(user)) <= 1)
    /\ [][(last'.op = "submit" /\ PendingOf(last'.id) # {})
             => /\ last'.result = DuplicateError
                /\ last'.wrote = {}
                /\ UNCHANGED <<bookings, bookingsFile, procVars>>]_vars

\* C10 witness: a user with a pending booking has submitted again and been refused,
\* while the other user's request was taken.
C10_DuplicateRefused ==
    /\ last.op = "submit"
    /\ last.result = DuplicateError
    /\ \E k \in DOMAIN bookings : bookings[k].user # last.id /\ bookings[k].submittedAt >= 0

\* The score the scoring rule gives a stream state.
ChatSpike(state) == Len(LastN(state.chatMessages, 10)) >= 5
KeywordMatched(state) ==
    \E kw \in keywordMatch : Includes(JoinLower(LastN(state.chatMessages, 10)), kw)
ManyViewers(state) == state.viewerCount > 5
RuleScore(state) ==
    (IF ChatSpike(state) THEN 3 ELSE 0) + (IF KeywordMatched(state) THEN 5 ELSE 0)
    + (IF ManyViewers(state) THEN 1 ELSE 0)

\* C11: a detect call that gets a stream state and returns appends and saves
\* a clip with status detected and score 3 (chat spike) + 5 (keyword) + 1
\* (viewers) exactly when that score is at least 5, which is exactly when a
\* keyword matched; otherwise it changes neither the clips nor their file.
C11_DetectScoring ==
    [][(last'.op = "detect" /\ last'.result \in {"detected", "not detected"})
          => LET state == last'.arg
             IN  /\ (last'.result = "detected") = (RuleScore(state) >= 5)
                 /\ (last'.result = "detected") = KeywordMatched(state)
                 /\ IF RuleScore(state) >= 5
                    THEN /\ Len(clips') = Len(clips) + 1
                         /\ SubSeq(clips', 1, Len(clips)) = clips
                         /\ clips'[Len(clips')].status = "detected"
                         /\ clips'[Len(clips')].score = RuleScore(state)
                         /\ clipsFile' = FileOf(Stringify(ClipSchema, clips'))
                    ELSE UNCHANGED <<clips, clipsFile>>]_vars

\* C11 witness: a keyword alone (one message, five viewers) scored 5 and the
\* clip is in the store and in its file.
C11_KeywordAloneDetected ==
    /\ last.op = "detect" /\ last.result = "detected"
    /\ ~ChatSpike(last.arg) /\ ~ManyViewers(last.arg)
    /\ clips # <<>> /\ clips[Len(clips)].score = 5
    /\ Load(ClipSchema, clipsFile).value = clips

ResolvedOf(ps) == { k \in DOMAIN ps : ps[k].status = "resolved" }
CorrectOf(ps) == { k \in ResolvedOf(ps) : ps[k].outcome = <<"correct">> }

\* C12: the accuracy stats reports is the number 0 when no prediction is
\* resolved, and otherwise the tenth nearest to 100 * correct / resolved,
\* where only resolved predictions with outcome correct count as correct.
C12_AccuracyToOneDecimal ==
    last.op = "stats"
        => LET r == Cardinality(ResolvedOf(predictions))
               c == Cardinality(CorrectOf(predictions))
               accuracy == last.new[1].accuracy
           IN  IF r = 0 THEN accuracy = [kind |-> "number", tenths |-> 0]
               ELSE /\ accuracy.kind = "string"
                    /\ 2 * r * accuracy.tenths - 2000 * c <= r
                    /\ 2000 * c - 2 * r * accuracy.tenths <= r

\* C12 witness: stats over one correct and one incorrect resolved prediction
\* reported 50.0.
C12_HalfCorrect ==
    /\ last.op = "stats"
    /\ Cardinality(ResolvedOf(predictions)) = 2
    /\ Cardinality(CorrectOf(predictions)) = 1
    /\ \E k \in ResolvedOf(predictions) : predictions[k].outcome = <<"incorrect">>
    /\ last.new[1].accuracy = [kind |-> "string", tenths |-> 500]

\* C13: add on an empty store leaves one record, with status active; resolve
\* of that record's id with outcome correct makes it resolved with outcome
\* correct; stats then reports resolved = 1, active = 0 and accuracy 100.0.
C13_AddResolveStats ==
    [][/\ (last'.op = "add" /\ last'.result = "pred" /\ predictions = <<>>)
          => /\ Len(predictions') = 1
             /\ predictions'[1] = last'.new[1]
             /\ predictions'[1].status = "active"
       /\ (/\ last'.op = "resolve" /\ last'.result = "pred" /\ last'.arg = "correct"
           /\ Len(predictions) = 1 /\ predictions[1].status = "active")
          => /\ Len(predictions') = 1
             /\ predictions'[1].id = predictions[1].id
             /\ predictions'[1].status = "resolved"
             /\ predictions'[1].outcome = <<"correct">>
       /\ (/\ last'.op = "stats"
           /\ Len(predictions) = 1 /\ predictions[1].status = "resolved"
           /\ predictions[1].outcome = <<"correct">>)
          => /\ last'.new[1].resolved = 1
             /\ last'.new[1].active = 0
             /\ last'.new[1].accuracy = [kind |-> "string", tenths |-> 1000]]_vars

\* C13 witness: stats has reported on a store whose one record was added in
\* this run and resolved correct.
C13_OneResolvedCorrect ==
    /\ last.op = "stats"
    /\ Len(predictions) = 1 /\ predictions[1].dateMade >= 0
    /\ predictions[1].status = "resolved" /\ predictions[1].outcome = <<"correct">>
    /\ last.new[1].resolved = 1 /\ last.new[1].active = 0
    /\ last.new[1].accuracy.tenths = 1000

\* What a load of the file returns now, and whether the file holds a
\* complete collection that differs from the one before the step.
SameOrComplete(schema, before, after) ==
    \/ Load(schema, after).value = Load(schema, before).value
    \/ after # before /\ ReadJson(schema, after).ok

\* C14: save is an atomic overwrite: when a process dies inside a save, a load
\* of each file afterwards returns the complete collection from before the
\* save or a complete new one, never a partial or an empty one.
C14_SaveIsAtomic ==
    [][last'.result = Crashed
          => /\ SameOrComplete(ContentSchema, queueFile, queueFile')
             /\ SameOrComplete(ContentSchema, postedFile, postedFile')
             /\ SameOrComplete(ClipSchema, clipsFile, clipsFile')
             /\ SameOrComplete(PredictionSchema, predictionsFile, predictionsFile')
             /\ SameOrComplete(BookingSchema, bookingsFile, bookingsFile')]_vars

\* The schema a store is written and read with.
schemas == <<ContentSchema, ContentSchema, ClipSchema, PredictionSchema, BookingSchema>>
names == <<"queue", "posted", "clips", "predictions", "bookings">>

\* C15: round trip: once a save has completed, a load of the file returns the
\* collection that was saved: the same records, in the same order, with the
\* same field values.
C15_SaveLoadRoundTrip ==
    \A s \in DOMAIN names :
        (running /\ names[s] \in last.wrote) => Load(schemas[s], files[s]).value = memory[s]

\* C16: a load of a store whose file is missing or cannot be parsed returns
\* the empty collection and does not throw, for each of the five stores.
C16_LoadFailureIsEmpty ==
    last.op = "new"
        => /\ last.result = "loaded"
           /\ \A s \in DOMAIN names :
                  ~ReadJson(schemas[s], files[s]).ok => memory[s] = <<>>

\* A new process has loaded a store whose file exists and cannot be parsed.
C16_UnparseableFileLoaded ==
    /\ last.op = "new"
    /\ last.result = "loaded"
    /\ \E s \in DOMAIN names :
           /\ files[s].exists
           /\ ~ReadJson(schemas[s], files[s]).ok
           /\ memory[s] = <<>>

\* The ids of the records a load of the file returns.
PersistedIds(schema, file) ==
    LET coll == Load(schema, file).value
    IN  { coll[k].id : k \in DOMAIN coll }

\* C17: records are never deleted: the set of ids persisted in the clip, the
\* prediction and the booking store, and the set of ids persisted in the queue
\* and the posted archive together, never lose a member.
C17_IdsNeverLost ==
    [][/\ PersistedIds(ClipSchema, clipsFile) \subseteq PersistedIds(ClipSchema, clipsFile')
       /\ PersistedIds(PredictionSchema, predictionsFile)
              \subseteq PersistedIds(PredictionSchema, predictionsFile')
       /\ PersistedIds(BookingSchema, bookingsFile) \subseteq PersistedIds(BookingSchema, bookingsFile')
       /\ (PersistedIds(ContentSchema, queueFile) \cup PersistedIds(ContentSchema, postedFile))
              \subseteq (PersistedIds(ContentSchema, queueFile')
                            \cup PersistedIds(ContentSchema, postedFile'))]_vars

\* C18: record ids are unique within a store in every reachable state,
\* records created in the same clock millisecond or by different invocations
\* included.
C18_IdsUnique ==
    \A s \in DOMAIN memory :
        \A j, k \in DOMAIN memory[s] : j # k => memory[s][j].id # memory[s][k].id

\* The timestamp fields of the records of each store (in the order of memory)
\* with the transition that writes each; nothing writes to a record once it is
\* in the posted archive.
Stamps ==
    << { <<"approvedAt", "content.approve">>, <<"rejectedAt", "content.reject">>,
         <<"postedAt", "content.markPosted">> },
       { <<"approvedAt", "none">>, <<"rejectedAt", "none">>, <<"postedAt", "none">> },
       { <<"approvedAt", "clip.approve">> },
       { <<"resolvedAt", "resolve">> },
       { <<"approvedAt", "booking.approve">>, <<"paidAt", "markPaid">>,
         <<"completedAt", "complete">> } >>

\* Where the records of a store are after a step of a process: in the store
\* (list sorts it in place), and for the queue also in the posted archive,
\* where markPosted moves a record.
After(s) == IF s = 1 THEN queue' \o posted' ELSE memory[s]'

\* A step by which a process that stays alive acts on the collections it has
\* loaded.
Operates == running /\ running' /\ last'.op # "new"

\* C19 as stated: each transition timestamp is set exactly once: once a
\* record carries it, no later operation changes its value.
C19_StampSetOnce ==
    [][Operates
          => \A s \in DOMAIN memory : \A k \in DOMAIN memory[s] :
                \E j \in DOMAIN After(s) :
                   /\ After(s)[j].id = memory[s][k].id
                   /\ \A f \in Stamps[s] :
                          memory[s][k][f[1]] # Unset
                              => After(s)[j][f[1]] = memory[s][k][f[1]]]_vars

\* C19, amended: a transition timestamp of a record is changed only by a call
\* of the transition that produces it, with the id of that record, which sets
\* it to the time of the call, the first time and every later time.
C19_StampOnlyByOwnTransition ==
    [][Operates
          => \A s \in DOMAIN memory : \A k \in DOMAIN memory[s] :
                \E j \in DOMAIN After(s) :
                   /\ After(s)[j].id = memory[s][k].id
                   /\ \A f \in Stamps[s] :
                          \/ After(s)[j][f[1]] = memory[s][k][f[1]]
                          \/ /\ last'.op = f[2]
                             /\ last'.id = memory[s][k].id
                             /\ After(s)[j][f[1]] = At(now)]_vars

\* A booking approved at one time has been marked paid a second time, later
\* than the first: paidAt is rewritten and approvedAt is as it was.
C19_PaidAgainLater ==
    /\ last.op = "markPaid"
    /\ last.result = "success"
    /\ last.was # <<>>
    /\ \E k \in DOMAIN bookings :
           /\ bookings[k].id = last.id
           /\ bookings[k].paidAt = At(now)
           /\ last.was[1] # Unset
           /\ last.was[1] # At(now)
           /\ bookings[k].approvedAt # Unset
           /\ bookings[k].approvedAt # At(now)

\* What a transition returns when it finds the record.
FoundResult(op) ==
    CASE op \in ContentTransitions -> "item"
      [] op = "clip.approve" -> "clip"
      [] op = "resolve" -> "pred"
      [] op \in BookingTransitions -> "success"

\* The record a transition has acted on: the first one with the id in its
\* store, for markPosted the one at the end of the posted archive.
Target(op, id) ==
    IF op = "content.markPosted" THEN posted[Len(posted)]
    ELSE StoreOf(op)[FindIndex(StoreOf(op), id)]

\* Whether the record is where the transition takes it, and the timestamp the
\* transition writes.
Reached(op, r) ==
    CASE op \in {"content.approve", "clip.approve", "booking.approve"} -> r.status = "approved"
      [] op = "content.reject" -> r.status = "rejected"
      [] op = "content.markPosted" -> r.status = "posted"
      [] op = "resolve" -> r.status = "resolved"
      [] op = "markPaid" -> r.paid
      [] op = "complete" -> r.status = "completed"

StampOf(op, r) ==
    CASE op \in {"content.approve", "clip.approve", "booking.approve"} -> r.approvedAt
      [] op = "content.reject" -> r.rejectedAt
      [] op = "content.markPosted" -> r.postedAt
      [] op = "resolve" -> r.resolvedAt
      [] op = "markPaid" -> r.paidAt
      [] op = "complete" -> r.completedAt

\* C20: transitions are not guarded against repetition: a transition invoked
\* on a record that it has already been applied to succeeds, leaves the status
\* at the target value and overwrites the transition's timestamp with the time
\* of this call.
C20_RepeatedTransitionRestamps ==
    (running /\ last.op \in Transitions /\ last.was # <<>>)
        => /\ last.result = FoundResult(last.op)
           /\ Reached(last.op, Target(last.op, last.id))
           /\ StampOf(last.op, Target(last.op, last.id)) = At(now)

\* A clip approved at one time has been approved again at a later time, or a
\* prediction resolved at one time resolved again later.
C20_RepeatedLater ==
    /\ running
    /\ last.op \in {"clip.approve", "resolve"}
    /\ last.was # <<>>
    /\ last.was[1] # Unset
    /\ last.was[1] # At(now)
    /\ StampOf(last.op, Target(last.op, last.id)) = At(now)

\* The place of a transition's store in memory.
StoreIndex(op) ==
    CASE op \in ContentTransitions -> 1
      [] op = "clip.approve" -> 3
      [] op = "resolve" -> 4
      [] op \in BookingTransitions -> 5

\* A step by which a transition has found its record and returned: was is the
\* record before the step, is the record after it.
Applied == running /\ running' /\ last'.op \in Transitions /\ last'.result = FoundResult(last'.op)
RecordBefore == StoreOf(last'.op)[FindIndex(StoreOf(last'.op), last'.id)]
RecordAfter ==
    IF last'.op = "content.markPosted" THEN posted'[Len(posted')]
    ELSE (memory')[StoreIndex(last'.op)][FindIndex(StoreOf(last'.op), last'.id)]

\* C21: a transition applied to an existing record sets the status to the
\* transition's target value and writes exactly one timestamp field, its own,
\* leaving the record's other timestamps as they were; markPaid writes paidAt
\* and the paid flag and leaves the status unchanged.
C21_TransitionSetsStatusAndOneStamp ==
    [][Applied
          => /\ Reached(last'.op, RecordAfter)
             /\ StampOf(last'.op, RecordAfter) = At(now)
             /\ \A f \in Stamps[StoreIndex(last'.op)] :
                   f[2] # last'.op => RecordAfter[f[1]] = RecordBefore[f[1]]
             /\ last'.op = "markPaid" => RecordAfter.status = RecordBefore.status]_vars

\* A booking approved at one time has been completed at a later time: it is
\* completed, carries the time of the call in completedAt and still carries
\* the time of its approval.
C21_CompletedAfterApproval ==
    /\ running
    /\ last.op = "complete"
    /\ last.result = "success"
    /\ \E k \in DOMAIN bookings :
           /\ bookings[k].id = last.id
           /\ bookings[k].status = "completed"
           /\ bookings[k].completedAt = At(now)
           /\ bookings[k].approvedAt # Unset
           /\ bookings[k].approvedAt # At(now)

\* C22: two invocations that overlap on one backing file can lose an update:
\* the last writer wins.  What a detection of the watching process saves is
\* the collection that process holds plus the new clip, whatever a separate
\* invocation has written to the file since the process loaded it.
C22_LastWriterWins ==
    [][(running /\ running' /\ last'.op = "detect" /\ last'.result = "detected")
          => Load(ClipSchema, clipsFile').value = clips \o last'.new]_vars

\* A separate approve has reported the approval of a clip and the detection
\* after it has reported a new clip, and the file holds the clip as detected,
\* without the approval.
C22_ApprovalLost ==
    /\ running
    /\ last.op = "detect"
    /\ last.result = "detected"
    /\ LET saved == Load(ClipSchema, clipsFile).value
       IN  \E id \in approvedElsewhere :
              /\ FindIndex(saved, id) # 0
              /\ \A k \in DOMAIN saved :
                    saved[k].id = id => saved[k].status = "detected" /\ saved[k].approvedAt = Unset

\* How many records of a collection carry the id.
Occurrences(coll, id) == Cardinality({ k \in DOMAIN coll : coll[k].id = id })

\* C23: markPosted is a move, not a deletion: after a markPosted that found
\* its item (the only one with that id, not yet in the archive), whether the
\* process returned or died on the way, the item is in exactly one of the
\* queue file and the posted file.
C23_MarkPostedIsMove ==
    [][(/\ last'.op = "content.markPosted"
        /\ last'.result \in {"item", Crashed}
        /\ Occurrences(queue, last'.id) = 1
        /\ IdAbsent(posted, last'.id)
        /\ last'.id \in PersistedIds(ContentSchema, queueFile)
        /\ last'.id \notin PersistedIds(ContentSchema, postedFile))
          => (last'.id \in PersistedIds(ContentSchema, queueFile'))
                # (last'.id \in PersistedIds(ContentSchema, postedFile'))]_vars

\* C24: the content queue never holds more than maxQueueSize items, in memory
\* or in its file, in any state reachable from an empty store by generateQueue,
\* approve, reject and markPosted.
C24_QueueAtMostMaxQueueSize ==
    /\ Len(queue) <= maxQueueSize
    /\ Len(Load(ContentSchema, queueFile).value) <= maxQueueSize

\* A generateQueue has admitted more items than the queue had room for, and
\* the queue is full.
C24_QueueFilled ==
    /\ running
    /\ last.op = "generateQueue"
    /\ Len(last.new) > 1
    /\ Len(queue) = maxQueueSize
    /\ \E k \in DOMAIN last.new : IdAbsent(queue, last.new[k].id)

\* C25: the detection check is idempotent: a detect that follows a detect
\* against the same stream state leaves the clip collection and its file as
\* the first one left them.
C25_DetectIdempotent ==
    [][(/\ running /\ running'
        /\ last.op = "detect" /\ last'.op = "detect"
        /\ last'.arg = last.arg)
          => clips' = clips /\ clipsFile' = clipsFile]_vars

\* C26: when the live-state provider fails or returns no state, detect asks
\* once and takes the answer as final: it does not throw, returns the
\* not-detected result marked offline, and leaves the clip collection and its
\* file unchanged.
C26_OfflineDetectChangesNothing ==
    [][(running /\ last'.op = "detect" /\ last'.result # Crashed /\ ~last'.arg.online)
          => /\ running'
             /\ last'.result = "stream offline"
             /\ last'.wrote = {}
             /\ clips' = clips
             /\ clipsFile' = clipsFile]_vars

\* A detect has found the stream offline while the store held a clip.
C26_OfflineWithClips ==
    /\ running
    /\ last.op = "detect"
    /\ ~last.arg.online
    /\ last.result = "stream offline"
    /\ clips # <<>>
    /\ Load(ClipSchema, clipsFile).value # <<>>

\* How many records of a collection carry the id and the status.
InStatus(coll, id, status) ==
    Cardinality({ k \in DOMAIN coll : coll[k].id = id /\ coll[k].status = status })

\* C27: no operation moves a clip or a prediction backward: by no call of a
\* process does an approved clip become detected again or a resolved
\* prediction active again (list sorts the predictions, so the records are
\* counted by id and status).
C27_NoBackwardMove ==
    [][Operates
          => /\ \A k \in DOMAIN clips :
                   /\ InStatus(clips', clips[k].id, "approved")
                         >= InStatus(clips, clips[k].id, "approved")
                   /\ last'.op # "detect"
                         => InStatus(clips', clips[k].id, "detected")
                               <= InStatus(clips, clips[k].id, "detected")
             /\ \A k \in DOMAIN predictions :
                   /\ InStatus(predictions', predictions[k].id, "resolved")
                         >= InStatus(predictions, predictions[k].id, "resolved")
                   /\ last'.op # "add"
                         => InStatus(predictions', predictions[k].id, "active")
                               <= InStatus(predictions, predictions[k].id, "active")]_vars

\* A clip has been detected while the store held an approved clip, which is
\* still approved.
C27_DetectedBesideApproved ==
    /\ running
    /\ last.op = "detect"
    /\ last.result = "detected"
    /\ \E k \in DOMAIN clips : clips[k].status = "approved" /\ clips[k].approvedAt # Unset

\* The positions of the completed bookings, and of those completed in the
\* month and year of the clock.
CompletedAt(bs) == { k \in DOMAIN bs : bs[k].status = "completed" }
CompletedThisMonth(bs, t) ==
    { k \in CompletedAt(bs) :
         /\ bs[k].completedAt # Unset
         /\ MonthIndex(bs[k].completedAt[1]) = MonthIndex(t) }

\* C28: getStats().totalRevenue is the sum of price (50 each) over exactly
\* the completed bookings, thisMonthRevenue the sum over the completed
\* bookings whose completedAt falls in the current month of the current year,
\* so thisMonthRevenue <= totalRevenue.
C28_RevenueSums ==
    (running /\ last.op = "getStats")
        => LET stats == last.new[1]
           IN  /\ stats.totalRevenue = priceUSD * Cardinality(CompletedAt(bookings))
               /\ stats.thisMonthRevenue
                     = priceUSD * Cardinality(CompletedThisMonth(bookings, now))
               /\ stats.thisMonthRevenue <= stats.totalRevenue

\* getStats has been called while some bookings were completed this month
\* and some in an earlier month.
C28_SomeThisMonth ==
    /\ running
    /\ last.op = "getStats"
    /\ last.new[1].thisMonthRevenue > 0
    /\ last.new[1].thisMonthRevenue < last.new[1].totalRevenue

\* The ideas in the order generateIdeas makes them, before it sorts them.
GenerationOrder(commit, mood) ==
    LET ideas == UnsortedIdeas(commit, mood)
    IN  IF Len(ideas) < 3 THEN ideas \o <<"hot_take", "prediction">> ELSE ideas

\* How many ideas come before idea i once the list is sorted by priority,
\* highest first, ideas of equal priority in generation order.
Before(ideas, i) ==
    Cardinality({ j \in DOMAIN ideas :
                     \/ Priority(ideas[j]) > Priority(ideas[i])
                     \/ Priority(ideas[j]) = Priority(ideas[i]) /\ j < i })

\* C29: generateQueue(count) offers to the duplicate check exactly the first
\* min(count, number of ideas) ideas of the list sorted by priority, highest
\* first, ideas of equal priority in generation order.
C29_OffersTopByPriority ==
    last.op = "offer"
        => LET ideas == GenerationOrder(last.arg.commit, last.arg.mood)
               n == IF last.arg.count < 0 THEN 0 ELSE Min(last.arg.count, Len(ideas))
           IN  /\ Len(last.new) = n
               /\ \A k \in 1..n :
                     \E i \in DOMAIN ideas :
                        /\ Before(ideas, i) = k - 1
                        /\ last.new[k].type = ideas[i]
                        /\ last.new[k].priority = Priority(ideas[i])
               /\ \A i \in DOMAIN ideas :
                     Before(ideas, i) >= n
                         => \A k \in 1..n : last.new[k].priority >= Priority(ideas[i])

\* Two of three ideas have been offered: the two of priority 7 in generation
\* order, the later one ahead of the idea of priority 6 generated before it.
C29_TieOffered ==
    /\ last.op = "offer"
    /\ last.arg.count = 2
    /\ GenerationOrder(last.arg.commit, last.arg.mood) = <<"lesson_learned", "hot_take", "prediction">>
    /\ Len(last.new) = 2
    /\ last.new[1].type = "lesson_learned"
    /\ last.new[2].type = "prediction"

\* The fields a record is created with, by store (in the order of memory).
Payload ==
    << {"id", "text", "type", "priority", "generated"},
       {"id", "text", "type", "priority", "generated"},
       {"id", "timestamp", "score", "indicators", "viewerCount", "messages"},
       {"id", "prediction", "dateMade", "confidence", "category", "resolutionDate", "notes"},
       {"id", "user", "price", "submittedAt"} >>

\* C30: a transition on one record changes only that record: it leaves every
\* other record of the store as it was (markPosted: every other item of the
\* queue and every record of the archive), and leaves the id and the creation
\* payload of its own record as they were.
C30_TransitionTouchesOneRecord ==
    [][Applied
          => LET s == StoreIndex(last'.op)
                 k == FindIndex(StoreOf(last'.op), last'.id)
             IN  /\ \A f \in Payload[s] : RecordAfter[f] = RecordBefore[f]
                 /\ IF last'.op = "content.markPosted"
                    THEN /\ queue' = RemoveAt(queue, k)
                         /\ SubSeq(posted', 1, Len(posted)) = posted
                         /\ Len(posted') = Len(posted) + 1
                    ELSE /\ Len((memory')[s]) = Len(memory[s])
                         /\ \A j \in DOMAIN memory[s] : j # k => (memory')[s][j] = memory[s][j]
                 /\ \A o \in DOMAIN memory :
                       (o # s /\ ~(s = 1 /\ o = 2)) => (memory')[o] = memory[o]]_vars

\* A prediction has been resolved while the store held another one, which is
\* still active.
C30_ResolvedBesideActive ==
    /\ running
    /\ last.op = "resolve"
    /\ last.result = "pred"
    /\ \E k \in DOMAIN predictions :
          /\ predictions[k].id # last.id
          /\ predictions[k].status = "active"


\* ---------------------------------------------------------------------------
\* C31: every item a completed generateQueue returns as newly generated is a
\* record of content-queue.json as that call saved it, whatever the size of the
\* queue before the call.
SavedQueue == Load(ContentSchema, queueFile).value

C31_ReturnedItemsSaved ==
    (last.op = "generateQueue" /\ last.result # Crashed)
        => \A k \in DOMAIN last.new :
              \E j \in DOMAIN SavedQueue : SavedQueue[j] = last.new[k]


\* ---------------------------------------------------------------------------
\* C32: list reads only: for every status filter, 'all' included, the prediction
\* collection in memory has the same records in the same order after the call
\* as before it, and predictions.json is as it was.
C32_ListReadsOnly ==
    [][last'.op = "list"
          => /\ predictions' = predictions
             /\ predictionsFile' = predictionsFile]_vars


\* ---------------------------------------------------------------------------
\* C33: in every reachable state the status counts that stats reports partition
\* the store: for clips total = pending + approved and posted = 0, for
\* predictions total = active + resolved, for bookings
\* totalBookings = pending + approved + completed; and a report just returned
\* by a stats call is the report of the store as it is.
C33_StatusCountsPartition ==
    /\ LET s == ClipStatsOf(clips)
       IN  s.total = s.pending + s.approved /\ s.posted = 0
    /\ LET s == StatsOf(predictions)
       IN  s.total = s.active + s.resolved
    /\ LET s == GetStatsOf(bookings, now)
       IN  s.totalBookings = s.pending + s.approved + s.completed
    /\ last.op = "clip.stats" => last.new = <<ClipStatsOf(clips)>>
    /\ last.op = "stats" => last.new = <<StatsOf(predictions)>>
    /\ last.op = "getStats" => last.new = <<GetStatsOf(bookings, now)>>

\* getStats has reported a store that holds a pending, an approved and a
\* completed booking.
C33_AllThreeReported ==
    /\ last.op = "getStats"
    /\ last.new[1].pending > 0
    /\ last.new[1].approved > 0
    /\ last.new[1].completed > 0

=============================================================================
